---- MODULE Spec2Model ----
(***************************************************************************)
(* A model of i2rtd.py, the I2C driver for Realtek scalers.                *)
(*                                                                         *)
(* The driver object holds one cached field (_halted); everything else it  *)
(* knows is re-queried from the chip over the bus.  The chip is therefore  *)
(* part of the state: its ISP-enable bit, its debug mode, the MCU's        *)
(* halt state and the XDATA / EEPROM memories behind the debug interface.  *)
(*                                                                         *)
(* Every method of the class is an operator from a machine record to a     *)
(* machine record.  The record carries the driver field, the chip, the     *)
(* pending Python exception (err), the bus log of the running call (every  *)
(* transaction and every time.sleep, in order) and the fault plan: which   *)
(* transaction of the call, if any, the transport lets fail.               *)
(*                                                                         *)
(* gens holds the generator objects a caller keeps from the two lazy read  *)
(* iterators; debugAutoEnable is the session's auto-enable policy, which   *)
(* the class in i2rtd.py neither stores nor reads.                         *)
(***************************************************************************)
EXTENDS Integers, Sequences, FiniteSets, TLC

VARIABLES halted, ispOn, dbgOn, mcuHalt, xdata, eeprom, call,
          gens, debugAutoEnable

vars == <<halted, ispOn, dbgOn, mcuHalt, xdata, eeprom, call,
          gens, debugAutoEnable>>

(***************************************************************************)
(* Bounds and input samples                                                *)
(***************************************************************************)
\* longest range / payload a call is given
MaxLen == 2

\* transactions the longest call can issue: 2 per address, 5 for gate and bracket
MaxTx == 2 * MaxLen + 5

\* errno classes of a failing transaction: no device (NACK) and any other
Errnos == {"ENXIO", "EIO"}

\* at = 0: no injected fault; at = k: the k-th transaction of the call fails
FaultPlans == {[at |-> 0, errno |-> "ENXIO"]}
              \cup [at : 1..MaxTx, errno : Errnos]

(***************************************************************************)
(* class ADDR                                                              *)
(***************************************************************************)
ADDR_DBG == 53
ADDR_DDC == 55
ADDR_ISP == 74

(***************************************************************************)
(* The bus log and Python's exceptions                                     *)
(***************************************************************************)
\* one log entry: k is "W" (write message), "R" (read message), "WR" (write
\* then read in one transfer), "RB" (read_byte) or "sleep" (b = <<ms>>);
\* e is the errno of a failed transaction ("" when it succeeded); h is the
\* MCU's halt state and f the driver's _halted when the entry was made
Ev(m, k, a, b, e) ==
  [k |-> k, a |-> a, b |-> b, ok |-> (e = ""), e |-> e,
   h |-> m.mcuHalt, f |-> m.halted]

Log(m, e) == [m EXCEPT !.bus = Append(@, e)]

\* raise(Exception(...)) / a propagating exception
Raise(m, kind) == IF m.err = "none" THEN [m EXCEPT !.err = kind] ELSE m

\* time.sleep(ms / 1000)
Sleep(m, ms) ==
  IF m.err # "none" THEN m
  ELSE Log(m, Ev(m, "sleep", 0, <<ms>>, ""))

(***************************************************************************)
(* The chip, as the driver's protocol addresses it                         *)
(***************************************************************************)
\* content of a memory cell nobody wrote yet
InitByte(a) == 16 + (a % 7)

MemRead(mem, a) == IF a \in DOMAIN mem THEN mem[a] ELSE InitByte(a)

MemWrite(mem, a, v) ==
  [x \in (DOMAIN mem) \cup {a} |-> IF x = a THEN v ELSE mem[x]]

\* the two-byte address a debug command carries
Addr16(lo, hi) == hi * 256 + lo

\* effect of a write message the chip acknowledged
DeviceWrite(m, a, b) ==
  CASE a = ADDR_ISP /\ Len(b) = 2 /\ b[1] = 111 ->
         [m EXCEPT !.ispOn = ((b[2] \div 128) % 2 = 1)]
    [] a = ADDR_ISP /\ Len(b) = 1 ->
         [m EXCEPT !.latch = IF b[1] = 111
                             THEN (IF m.ispOn THEN 128 ELSE 0)
                             ELSE InitByte(b[1])]
    [] a = ADDR_DDC /\ b = <<113, 129, 170, 255>> ->
         [m EXCEPT !.dbgOn = TRUE]
    [] a = ADDR_DBG /\ b = <<113, 0>> ->
         [m EXCEPT !.dbgOn = FALSE]
    [] a = ADDR_DBG /\ Len(b) = 2 /\ b[1] = 128 ->
         [m EXCEPT !.mcuHalt = (b[2] = 1)]
    [] a = ADDR_DBG /\ Len(b) = 3 /\ b[1] = 58 ->
         [m EXCEPT !.latch = MemRead(m.xdata, Addr16(b[2], b[3]))]
    [] a = ADDR_DBG /\ Len(b) = 4 /\ b[1] = 59 ->
         [m EXCEPT !.xdata = MemWrite(@, Addr16(b[2], b[3]), b[4])]
    [] a = ADDR_DBG /\ Len(b) = 5 /\ b[1] = 68 ->
         [m EXCEPT !.latch = MemRead(m.eeprom, Addr16(b[2], b[5]))]
    [] a = ADDR_DBG /\ Len(b) = 5 /\ b[1] = 4 ->
         [m EXCEPT !.eeprom = MemWrite(@, Addr16(b[2], b[5]), b[4])]
    [] OTHER -> m

\* the debug address answers only in debug mode; the other two always do
Present(m, a) == a # ADDR_DBG \/ m.dbgOn

(***************************************************************************)
(* SMBus: one transaction.  It fails (OSError) when the fault plan says    *)
(* so or when nobody answers at the address; a failed transaction has no   *)
(* effect on the chip.                                                     *)
(***************************************************************************)
Fails(m, a) == m.plan.at = m.n + 1 \/ ~Present(m, a)

Errno(m, a) == IF m.plan.at = m.n + 1 THEN m.plan.errno ELSE "ENXIO"

OSError(m, k, a, b) ==
  [Log(m, Ev(m, k, a, b, Errno(m, a)))
     EXCEPT !.n = @ + 1, !.err = "OSError", !.errno = Errno(m, a)]

\* bus.transfer(W(a, b))
BusWrite(m, a, b) ==
  IF m.err # "none" THEN m
  ELSE IF Fails(m, a) THEN OSError(m, "W", a, b)
  ELSE LET d == DeviceWrite(m, a, b)
       IN  [Log(d, Ev(m, "W", a, b, "")) EXCEPT !.n = @ + 1]

\* bus.transfer(R(a, 1)): the byte the last command selected
BusRead(m, a) ==
  IF m.err # "none" THEN m
  ELSE IF Fails(m, a) THEN OSError(m, "R", a, <<>>)
  ELSE [Log(m, Ev(m, "R", a, <<m.latch>>, ""))
          EXCEPT !.n = @ + 1, !.byte = m.latch]

\* bus.transfer(W(a, b), R(a, 1)): both messages in one transaction
BusWriteRead(m, a, b) ==
  IF m.err # "none" THEN m
  ELSE IF Fails(m, a) THEN OSError(m, "WR", a, b)
  ELSE LET d == DeviceWrite(m, a, b)
       IN  [Log(d, Ev(m, "WR", a, b \o <<d.latch>>, ""))
              EXCEPT !.n = @ + 1, !.byte = d.latch]

\* bus.read_byte(a)
BusReadByte(m, a) ==
  IF m.err # "none" THEN m
  ELSE IF Fails(m, a) THEN OSError(m, "RB", a, <<>>)
  ELSE [Log(m, Ev(m, "RB", a, <<>>, "")) EXCEPT !.n = @ + 1]

(***************************************************************************)
(* Mode queries and the gating decorators                                  *)
(***************************************************************************)
\* I2RTD.isp_enabled: read register 0x6f, test the top bit
isp_enabled(m) ==
  LET t == BusWriteRead(m, ADDR_ISP, <<111>>)
  IN  [m |-> t, v |-> (t.err = "none" /\ (t.byte \div 128) % 2 = 1)]

\* I2RTD.debug_enabled: probe the debug address; any OSError means False
debug_enabled(m) ==
  LET t == BusReadByte(m, ADDR_DBG)
  IN  IF t.err = "OSError"
      THEN [m |-> [t EXCEPT !.err = "none", !.errno = ""], v |-> FALSE]
      ELSE [m |-> t, v |-> TRUE]

\* @isp: the wrapper's check before func runs
isp(m) ==
  LET q == isp_enabled(m)
  IN  IF q.m.err # "none" THEN q.m
      ELSE IF ~q.v THEN Raise(q.m, "PreconditionFailed")
      ELSE q.m

\* @debug that lets every call through
debug_open(m) == debug_enabled(m).m

\* @debug: the wrapper's check before func runs
debug(m) ==
  LET q == debug_enabled(m)
  IN  IF q.m.err # "none" THEN q.m
      ELSE IF ~q.v THEN Raise(q.m, "PreconditionFailed")
      ELSE q.m

(***************************************************************************)
(* limit_addr                                                              *)
(***************************************************************************)
\* '_read_' in func.__name__, for the four decorated functions
HasReadInName(fn) == fn \in {"isp_iter_read_xfr", "debug_iter_read_xdata"}

\* a payload: a sized iterable (a list) or a value that is neither
IsList(data) == data.it

\* len(data); not defined for a value that is no sized iterable
PyLen(data) == Len(data.v)

\* the verdict with the end address taken one too far
limit_verdict_off_by_one(min, max, fn, addr, len_data) ==
  IF ~(min <= addr /\ addr <= max) THEN "start"
  ELSE IF ~HasReadInName(fn) /\ ~IsList(len_data) THEN "TypeError"
  ELSE LET max_addr == addr + (IF HasReadInName(fn) THEN len_data
                                ELSE PyLen(len_data))
       IN  IF ~(min <= max_addr /\ max_addr <= max) THEN "end" ELSE "ok"

\* the pure verdict of the wrapper: "ok", "start", "end" or "TypeError"
\* (len() of a payload that has no length)
limit_verdict(min, max, fn, addr, len_data) ==
  IF ~(min <= addr /\ addr <= max) THEN "start"
  ELSE IF ~HasReadInName(fn) /\ ~IsList(len_data) THEN "TypeError"
  ELSE LET max_addr == addr + (IF HasReadInName(fn) THEN len_data
                                ELSE PyLen(len_data)) - 1
       IN  IF ~(min <= max_addr /\ max_addr <= max) THEN "end" ELSE "ok"

\* @limit_addr(min, max): the wrapper's checks before func runs
limit_addr(min, max, fn, m, addr, len_data) ==
  IF m.err # "none" THEN m
  ELSE LET v == limit_verdict(min, max, fn, addr, len_data)
       IN  CASE v = "start"     -> Raise(m, "RangeErrorStart")
             [] v = "end"       -> Raise(m, "RangeErrorEnd")
             [] v = "TypeError" -> Raise(m, "TypeError")
             [] OTHER           -> m

(***************************************************************************)
(* Mode setters and halt control                                           *)
(***************************************************************************)
\* isp_enable without its early return
isp_enable_always(m, onoff, force) ==
  LET q == isp_enabled(m)
  IN  IF q.m.err # "none" THEN q.m
      ELSE IF onoff THEN BusWrite(q.m, ADDR_ISP, <<111, 128>>)
      ELSE BusWrite(q.m, ADDR_ISP, <<111, 0>>)

\* I2RTD.isp_enable
isp_enable(m, onoff, force) ==
  LET q == isp_enabled(m)
  IN  IF q.m.err # "none" THEN q.m
      ELSE IF q.v = onoff /\ ~force THEN q.m
      ELSE IF onoff THEN BusWrite(q.m, ADDR_ISP, <<111, 128>>)
      ELSE BusWrite(q.m, ADDR_ISP, <<111, 0>>)

\* I2RTD.isp_reset
isp_reset(m) ==
  BusWrite(isp_enable(m, TRUE, TRUE), ADDR_ISP, <<238, 3>>)

\* debug_enable without its check of _halted
debug_enable_unguarded(m, onoff, force) ==
  LET q == debug_enabled(m)
  IN  IF q.v = onoff /\ ~force THEN q.m
      ELSE LET s == Sleep(q.m, 50)
               w == IF onoff
                    THEN BusWrite(s, ADDR_DDC, <<113, 129, 170, 255>>)
                    ELSE BusWrite(s, ADDR_DBG, <<113, 0>>)
           IN  Sleep(w, 50)

\* I2RTD.debug_enable
debug_enable(m, onoff, force) ==
  LET q == debug_enabled(m)
  IN  IF q.v = onoff /\ ~force THEN q.m
      ELSE IF ~onoff /\ q.m.halted THEN Raise(q.m, "InvalidState")
      ELSE LET s == Sleep(q.m, 50)
               w == IF onoff
                    THEN BusWrite(s, ADDR_DDC, <<113, 129, 170, 255>>)
                    ELSE BusWrite(s, ADDR_DBG, <<113, 0>>)
           IN  Sleep(w, 50)

\* int(halt)
PyInt(b) == IF b THEN 1 ELSE 0

\* the body without the delay after the command
halt_mcu_body_no_settle(m, halt) ==
  LET s == Sleep(m, 100)
      w == BusWrite(s, ADDR_DBG, <<128, PyInt(halt)>>)
  IN  IF w.err = "none" THEN [w EXCEPT !.halted = halt] ELSE w

\* the body with _halted assigned before the command is written
halt_mcu_body_flag_first(m, halt) ==
  LET s == Sleep(m, 100)
      f == IF s.err = "none" THEN [s EXCEPT !.halted = halt] ELSE s
      w == BusWrite(f, ADDR_DBG, <<128, PyInt(halt)>>)
  IN  Sleep(w, 100)

\* the body of debug_halt_mcu, after the gate
halt_mcu_body(m, halt) ==
  LET s == Sleep(m, 100)
      w == BusWrite(s, ADDR_DBG, <<128, PyInt(halt)>>)
      f == IF w.err = "none" THEN [w EXCEPT !.halted = halt] ELSE w
  IN  Sleep(f, 100)

\* I2RTD.debug_halt_mcu
debug_halt_mcu(m, halt) ==
  IF m.err # "none" THEN m
  ELSE LET g == debug(m)
       IN  IF g.err # "none" THEN g ELSE halt_mcu_body(g, halt)

(***************************************************************************)
(* ISP register access                                                     *)
(***************************************************************************)
\* yield int.from_bytes(m)
Yield(m) == IF m.err # "none" THEN m ELSE [m EXCEPT !.ret = Append(@, m.byte)]

\* one pass of the loop of isp_iter_read_xfr
isp_read_step(m, _addr) ==
  Yield(BusRead(BusWrite(m, ADDR_ISP, <<_addr>>), ADDR_ISP))

RECURSIVE isp_read_loop(_, _, _)
\* for _addr in range(addr, stop), the generator run to its end
isp_read_loop(m, _addr, stop) ==
  IF m.err # "none" \/ _addr >= stop THEN m
  ELSE isp_read_loop(isp_read_step(m, _addr), _addr + 1, stop)

\* I2RTD.isp_iter_read_xfr, consumed to its end
isp_iter_read_xfr(m, addr, _len) ==
  LET g == limit_addr(0, 255, "isp_iter_read_xfr", isp(m), addr, _len)
  IN  isp_read_loop(g, addr, addr + _len)

\* I2RTD.isp_read_xfr: self.debug_iter_read_xfr is no attribute of the class
isp_read_xfr(m, addr, _len) == Raise(m, "AttributeError")

\* I2RTD.isp_dump_xfr: the same missing attribute, looked up before halt
isp_dump_xfr(m, addr, _len, end) == Raise(m, "AttributeError")

RECURSIVE isp_write_loop(_, _, _, _)
\* for _addr, val in enumerate(data, addr)
isp_write_loop(m, addr, data, i) ==
  IF m.err # "none" \/ i > Len(data) THEN m
  ELSE isp_write_loop(BusWrite(m, ADDR_ISP, <<addr + i - 1, data[i]>>),
                      addr, data, i + 1)

\* isinstance(data, Iterable), else raise
RequireIterable(m, data) ==
  IF m.err # "none" THEN m
  ELSE IF ~IsList(data) THEN Raise(m, "InvalidPayload") ELSE m

\* I2RTD.isp_write_xfr
isp_write_xfr(m, addr, data) ==
  LET g == limit_addr(0, 255, "isp_write_xfr", isp(m), addr, data)
      c == RequireIterable(g, data)
  IN  IF c.err # "none" THEN c ELSE isp_write_loop(c, addr, data.v, 1)

(***************************************************************************)
(* Debug XDATA access                                                      *)
(***************************************************************************)
\* addrH, addrL = _addr >> 8 & 0xff, _addr & 0xff
addrH(_addr) == (_addr \div 256) % 256
addrL(_addr) == _addr % 256

\* if halt: self.debug_halt_mcu(h)
Bracket(m, halt, h) == IF halt THEN debug_halt_mcu(m, h) ELSE m

\* one pass of the loop of debug_iter_read_xdata
xdata_read_step(m, _addr, halt) ==
  LET w == BusWrite(m, ADDR_DBG, <<58, addrL(_addr), addrH(_addr)>>)
      s == IF ~halt THEN Sleep(w, 10) ELSE w
  IN  Yield(BusRead(s, ADDR_DBG))

RECURSIVE xdata_read_loop(_, _, _, _)
xdata_read_loop(m, _addr, stop, halt) ==
  IF m.err # "none" \/ _addr >= stop THEN m
  ELSE xdata_read_loop(xdata_read_step(m, _addr, halt), _addr + 1, stop, halt)

\* I2RTD.debug_iter_read_xdata, consumed to its end
debug_iter_read_xdata(m, addr, _len, end, halt) ==
  LET g == limit_addr(0, 65535, "debug_iter_read_xdata", debug(m), addr, _len)
      o == Bracket(g, halt, TRUE)
      l == xdata_read_loop(o, addr, addr + _len, halt)
  IN  Bracket(l, halt, FALSE)

\* I2RTD.debug_read_xdata: halt is handed over as the third positional
\* argument, which debug_iter_read_xdata takes as end; its own halt stays True
debug_read_xdata(m, addr, _len, halt) ==
  debug_iter_read_xdata(m, addr, _len, halt, TRUE)

\* if end: _len = end - addr + 1
DumpLen(addr, _len, end) == IF end # 0 THEN end - addr + 1 ELSE _len

\* I2RTD.debug_dump_xdata (hexdump consumes the iterator to its end)
debug_dump_xdata(m, addr, _len, end, halt) ==
  debug_iter_read_xdata(m, addr, DumpLen(addr, _len, end), 0, halt)

\* the write command with its two address bytes swapped
xdata_write_step_swapped(m, _addr, val, halt) ==
  LET w == BusWrite(m, ADDR_DBG, <<59, addrH(_addr), addrL(_addr), val>>)
  IN  IF ~halt THEN Sleep(w, 10) ELSE w

\* one pass of the loop of debug_write_xdata
xdata_write_step(m, _addr, val, halt) ==
  LET w == BusWrite(m, ADDR_DBG, <<59, addrL(_addr), addrH(_addr), val>>)
  IN  IF ~halt THEN Sleep(w, 10) ELSE w

RECURSIVE xdata_write_loop(_, _, _, _, _)
xdata_write_loop(m, addr, data, i, halt) ==
  IF m.err # "none" \/ i > Len(data) THEN m
  ELSE xdata_write_loop(xdata_write_step(m, addr + i - 1, data[i], halt),
                        addr, data, i + 1, halt)

\* I2RTD.debug_write_xdata
debug_write_xdata(m, addr, data, halt) ==
  LET g == limit_addr(0, 65535, "debug_write_xdata", debug(m), addr, data)
      c == RequireIterable(g, data)
  IN  IF c.err # "none" THEN c
      ELSE Bracket(xdata_write_loop(Bracket(c, halt, TRUE), addr, data.v, 1, halt),
                   halt, FALSE)

(***************************************************************************)
(* Debug EEPROM access                                                     *)
(***************************************************************************)
\* i2caddr=0xa0
I2CADDR == 160

\* one pass of the loop of debug_iter_read_eeprom
eeprom_read_step(m, _addr, halt) ==
  LET w == BusWrite(m, ADDR_DBG, <<68, addrL(_addr), I2CADDR, 0, addrH(_addr)>>)
      s == Sleep(w, 10)
      t == IF ~halt THEN Sleep(s, 10) ELSE s
  IN  Yield(BusRead(t, ADDR_DBG))

RECURSIVE eeprom_read_loop(_, _, _, _)
eeprom_read_loop(m, _addr, stop, halt) ==
  IF m.err # "none" \/ _addr >= stop THEN m
  ELSE eeprom_read_loop(eeprom_read_step(m, _addr, halt), _addr + 1, stop, halt)

\* I2RTD.debug_iter_read_eeprom, consumed to its end
debug_iter_read_eeprom(m, addr, _len, halt) ==
  LET g == debug(m)
      o == Bracket(g, halt, TRUE)
      l == eeprom_read_loop(o, addr, addr + _len, halt)
  IN  Bracket(l, halt, FALSE)

\* I2RTD.debug_read_eeprom
debug_read_eeprom(m, addr, _len, halt) ==
  debug_iter_read_eeprom(m, addr, _len, halt)

\* I2RTD.debug_dump_eeprom
debug_dump_eeprom(m, addr, _len, end, halt) ==
  debug_iter_read_eeprom(m, addr, DumpLen(addr, _len, end), halt)

\* one pass of the loop of debug_write_eeprom
eeprom_write_step(m, _addr, val, halt) ==
  LET w == BusWrite(m, ADDR_DBG, <<4, addrL(_addr), I2CADDR, val, addrH(_addr)>>)
      s == Sleep(w, 10)
  IN  IF ~halt THEN Sleep(s, 10) ELSE s

RECURSIVE eeprom_write_loop(_, _, _, _, _)
eeprom_write_loop(m, addr, data, i, halt) ==
  IF m.err # "none" \/ i > Len(data) THEN m
  ELSE eeprom_write_loop(eeprom_write_step(m, addr + i - 1, data[i], halt),
                         addr, data, i + 1, halt)

\* I2RTD.debug_write_eeprom
debug_write_eeprom(m, addr, data, halt) ==
  LET c == RequireIterable(debug(m), data)
  IN  IF c.err # "none" THEN c
      ELSE Bracket(eeprom_write_loop(Bracket(c, halt, TRUE), addr, data.v, 1, halt),
                   halt, FALSE)

(***************************************************************************)
(* The state machine: one action per public method.  A call runs to its    *)
(* end in one step (the driver is single-threaded and blocking) and leaves *)
(* its record in call; Return hands the result to the caller.              *)
(***************************************************************************)
\* start addresses the calls are given, per address space
IspStarts    == {254, 255}
XdataStarts  == {255, 65535}
EepromStarts == {65535}

Lens == 0..MaxLen

\* the payload of n values, and a value that is no iterable (an int)
Payload(n) == [it |-> TRUE, v |-> [i \in 1..n |-> i]]
Scalar     == [it |-> FALSE, v |-> <<>>]
Payloads   == {Payload(n) : n \in Lens} \cup {Scalar}

\* end arguments of a dump from addr; 0 is the parameter's default
Ends(addr) == {0} \cup {addr + k - 1 : k \in 1..MaxLen}

Idle == [op |-> "idle"]

NoArgs == [addr |-> 0, len |-> 0, end |-> 0, halt |-> FALSE,
           data |-> Scalar, onoff |-> FALSE, force |-> FALSE]

\* the driver and the chip, as a call finds them
Pre == [halted |-> halted, ispOn |-> ispOn, dbgOn |-> dbgOn,
        mcuHalt |-> mcuHalt, xdata |-> xdata, eeprom |-> eeprom]

\* the machine a call starts on
Mach(p, plan) ==
  [halted |-> p.halted, ispOn |-> p.ispOn, dbgOn |-> p.dbgOn,
   mcuHalt |-> p.mcuHalt, xdata |-> p.xdata, eeprom |-> p.eeprom,
   latch |-> 0, byte |-> 0, bus |-> <<>>, n |-> 0, plan |-> plan,
   err |-> "none", errno |-> "", ret |-> <<>>, val |-> FALSE]

\* a property read by the caller: its value is what the call returns
isp_enabled_get(m) ==
  LET q == isp_enabled(m) IN [q.m EXCEPT !.val = q.v]

debug_enabled_get(m) ==
  LET q == debug_enabled(m) IN [q.m EXCEPT !.val = q.v]

\* the call op(a) ran on Mach(Pre, plan) and ended as machine m
Ran(op, a, plan, m) ==
  /\ call = Idle
  /\ halted'  = m.halted
  /\ ispOn'   = m.ispOn
  /\ dbgOn'   = m.dbgOn
  /\ mcuHalt' = m.mcuHalt
  /\ xdata'   = m.xdata
  /\ eeprom'  = m.eeprom
  /\ call'    = [op |-> op, a |-> a, plan |-> plan, pre |-> Pre,
                 err |-> m.err, errno |-> m.errno, ret |-> m.ret,
                 val |-> m.val, bus |-> m.bus]

\* a call of a method that runs to its end: no generator moves
Do(op, a, plan, m) ==
  /\ Ran(op, a, plan, m)
  /\ UNCHANGED <<gens, debugAutoEnable>>

\* the generator objects the caller holds, and the slot without one
Gens  == {1, 2}
NoGen == [st |-> "none", kind |-> "", cur |-> 0, stop |-> 0]


\* what is left of a call that ran on Mach(pre, plan) and ended as machine m
Called(op, a, plan, pre, m) ==
  [op |-> op, a |-> a, plan |-> plan, pre |-> pre,
   err |-> m.err, errno |-> m.errno, ret |-> m.ret,
   val |-> m.val, bus |-> m.bus]

\* __init__ that goes on after a failed probe
I2RTD_init_unchecked(m) ==
  LET t == BusReadByte([m EXCEPT !.halted = FALSE], ADDR_ISP)
  IN  IF t.err = "OSError" THEN [t EXCEPT !.err = "none", !.errno = ""] ELSE t

\* I2RTD.__init__: _halted = False, then the probe of the ISP address; an
\* OSError of the probe becomes Exception("device not reachable")
I2RTD_init(m) ==
  LET t == BusReadByte([m EXCEPT !.halted = FALSE], ADDR_ISP)
  IN  IF t.err = "OSError"
      THEN [t EXCEPT !.err = "DeviceUnreachable", !.errno = ""]
      ELSE t

\* the construction-time probe is the constructor's only transaction
InitPlans == {p \in FaultPlans : p.at <= 1}

\* the constructor raised: there is no driver object
Unborn == call.op = "__init__" /\ call.err # "none"

\* the constructor has just run, on a chip in any mode
Init ==
  /\ halted = FALSE
  /\ ispOn \in BOOLEAN
  /\ dbgOn \in BOOLEAN
  /\ mcuHalt = FALSE
  /\ xdata = <<>>
  /\ eeprom = <<>>
  /\ gens = [g \in Gens |-> NoGen]
  /\ debugAutoEnable = FALSE
  /\ \E plan \in InitPlans :
       call = Called("__init__", NoArgs, plan, Pre,
                     I2RTD_init(Mach(Pre, plan)))

\* I2RTD(bus) once more, after a construction that failed
New ==
  /\ Unborn
  /\ \E plan \in InitPlans :
       call' = Called("__init__", NoArgs, plan, Pre,
                      I2RTD_init(Mach(Pre, plan)))
  /\ halted' = FALSE
  /\ UNCHANGED <<ispOn, dbgOn, mcuHalt, xdata, eeprom, gens, debugAutoEnable>>

IspEnabled ==
  \E plan \in FaultPlans : Do("isp_enabled", NoArgs, plan, isp_enabled_get(Mach(Pre, plan)))

IspEnable ==
  \E onoff \in BOOLEAN, force \in BOOLEAN, plan \in FaultPlans :
    Do("isp_enable", [NoArgs EXCEPT !.onoff = onoff, !.force = force], plan,
       isp_enable(Mach(Pre, plan), onoff, force))

IspIterReadXfr ==
  \E addr \in IspStarts, n \in Lens, plan \in FaultPlans :
    Do("isp_iter_read_xfr", [NoArgs EXCEPT !.addr = addr, !.len = n], plan,
       isp_iter_read_xfr(Mach(Pre, plan), addr, n))

IspReadXfr ==
  \E addr \in IspStarts, n \in Lens, plan \in FaultPlans :
    Do("isp_read_xfr", [NoArgs EXCEPT !.addr = addr, !.len = n], plan,
       isp_read_xfr(Mach(Pre, plan), addr, n))

IspDumpXfr ==
  \E addr \in IspStarts, plan \in FaultPlans :
    \E end \in Ends(addr) :
      Do("isp_dump_xfr",
         [NoArgs EXCEPT !.addr = addr, !.len = 1, !.end = end], plan,
         isp_dump_xfr(Mach(Pre, plan), addr, 1, end))

IspWriteXfr ==
  \E addr \in IspStarts, data \in Payloads, plan \in FaultPlans :
    Do("isp_write_xfr", [NoArgs EXCEPT !.addr = addr, !.data = data], plan,
       isp_write_xfr(Mach(Pre, plan), addr, data))

IspReset ==
  \E plan \in FaultPlans : Do("isp_reset", NoArgs, plan, isp_reset(Mach(Pre, plan)))

DebugEnabled ==
  \E plan \in FaultPlans : Do("debug_enabled", NoArgs, plan, debug_enabled_get(Mach(Pre, plan)))

DebugEnable ==
  \E onoff \in BOOLEAN, force \in BOOLEAN, plan \in FaultPlans :
    Do("debug_enable", [NoArgs EXCEPT !.onoff = onoff, !.force = force], plan,
       debug_enable(Mach(Pre, plan), onoff, force))

DebugHaltMcu ==
  \E halt \in BOOLEAN, plan \in FaultPlans :
    Do("debug_halt_mcu", [NoArgs EXCEPT !.halt = halt], plan,
       debug_halt_mcu(Mach(Pre, plan), halt))

DebugReadXdata ==
  \E addr \in XdataStarts, n \in Lens, halt \in BOOLEAN, plan \in FaultPlans :
    Do("debug_read_xdata",
       [NoArgs EXCEPT !.addr = addr, !.len = n, !.halt = halt], plan,
       debug_read_xdata(Mach(Pre, plan), addr, n, halt))

DebugDumpXdata ==
  \E addr \in XdataStarts, halt \in BOOLEAN, plan \in FaultPlans :
    \E end \in Ends(addr) :
      \E n \in (IF end = 0 THEN Lens ELSE {1}) :
        Do("debug_dump_xdata",
           [NoArgs EXCEPT !.addr = addr, !.len = n, !.end = end, !.halt = halt],
           plan, debug_dump_xdata(Mach(Pre, plan), addr, n, end, halt))

DebugWriteXdata ==
  \E addr \in XdataStarts, data \in Payloads, halt \in BOOLEAN,
     plan \in FaultPlans :
    Do("debug_write_xdata",
       [NoArgs EXCEPT !.addr = addr, !.data = data, !.halt = halt], plan,
       debug_write_xdata(Mach(Pre, plan), addr, data, halt))

DebugReadEeprom ==
  \E addr \in EepromStarts, n \in Lens, halt \in BOOLEAN, plan \in FaultPlans :
    Do("debug_read_eeprom",
       [NoArgs EXCEPT !.addr = addr, !.len = n, !.halt = halt], plan,
       debug_read_eeprom(Mach(Pre, plan), addr, n, halt))

DebugDumpEeprom ==
  \E addr \in EepromStarts, halt \in BOOLEAN, plan \in FaultPlans :
    \E end \in Ends(addr) :
      \E n \in (IF end = 0 THEN Lens ELSE {1}) :
        Do("debug_dump_eeprom",
           [NoArgs EXCEPT !.addr = addr, !.len = n, !.end = end, !.halt = halt],
           plan, debug_dump_eeprom(Mach(Pre, plan), addr, n, end, halt))

DebugWriteEeprom ==
  \E addr \in EepromStarts, data \in Payloads, halt \in BOOLEAN,
     plan \in FaultPlans :
    Do("debug_write_eeprom",
       [NoArgs EXCEPT !.addr = addr, !.data = data, !.halt = halt], plan,
       debug_write_eeprom(Mach(Pre, plan), addr, data, halt))

\* the call is over: its result (or exception) is with the caller
Return ==
  /\ call # Idle
  /\ ~Unborn
  /\ call' = Idle
  /\ UNCHANGED <<halted, ispOn, dbgOn, mcuHalt, xdata, eeprom, gens,
                 debugAutoEnable>>

Next ==
  \/ New
  \/ IspEnabled
  \/ IspEnable
  \/ IspIterReadXfr
  \/ IspReadXfr
  \/ IspDumpXfr
  \/ IspWriteXfr
  \/ IspReset
  \/ DebugEnabled
  \/ DebugEnable
  \/ DebugHaltMcu
  \/ DebugReadXdata
  \/ DebugDumpXdata
  \/ DebugWriteXdata
  \/ DebugReadEeprom
  \/ DebugDumpEeprom
  \/ DebugWriteEeprom
  \/ Return

Spec == Init /\ [][Next]_vars

(***************************************************************************)
(* Reading the record of a call                                            *)
(***************************************************************************)
BusIdx == 1..Len(call.bus)

\* a per-address command of the debug interface: XDATA read / write,
\* EEPROM read / write
IsXdataCmd(e)  == e.k = "W" /\ e.a = ADDR_DBG /\ Len(e.b) >= 3 /\ e.b[1] \in {58, 59}
IsEepromCmd(e) == e.k = "W" /\ e.a = ADDR_DBG /\ Len(e.b) = 5 /\ e.b[1] \in {68, 4}
IsAddrCmd(e)   == IsXdataCmd(e) \/ IsEepromCmd(e)

\* the read message that fetches the byte a read command selected
IsDataRead(e) == e.k = "R" /\ e.a = ADDR_DBG

\* a transaction of a per-address transfer
IsPerAddr(e) == IsAddrCmd(e) \/ IsDataRead(e)

\* the halt (v = 1) or run (v = 0) command
IsHaltCmd(e, v) ==
  e.k = "W" /\ e.a = ADDR_DBG /\ Len(e.b) = 2 /\ e.b[1] = 128 /\ e.b[2] = v

IsAnyHaltCmd(e) == IsHaltCmd(e, 0) \/ IsHaltCmd(e, 1)

\* a mode write: ISP on / off, debug on, debug off
IsIspModeWrite(e)  == e.k = "W" /\ e.a = ADDR_ISP /\ Len(e.b) = 2 /\ e.b[1] = 111
IsDebugOnWrite(e)  == e.k = "W" /\ e.a = ADDR_DDC
IsDebugOffWrite(e) == e.k = "W" /\ e.a = ADDR_DBG /\ e.b = <<113, 0>>
IsModeWrite(e) == IsIspModeWrite(e) \/ IsDebugOnWrite(e) \/ IsDebugOffWrite(e)

IsSleep(e) == e.k = "sleep"

\* the settle delay of the halt=false path follows the command at index i:
\* one sleep after an XDATA command, the EEPROM's own and one more after an
\* EEPROM command
Settled(i) ==
  /\ i < Len(call.bus) /\ IsSleep(call.bus[i + 1])
  /\ IsEepromCmd(call.bus[i]) =>
       (i + 1 < Len(call.bus) /\ IsSleep(call.bus[i + 2]))

NoHaltCmd == \A i \in BusIdx : ~IsAnyHaltCmd(call.bus[i])

XdataEepromOps == {"debug_read_xdata", "debug_write_xdata",
                   "debug_read_eeprom", "debug_write_eeprom"}

DebugReadOps == {"debug_read_xdata", "debug_dump_xdata",
                 "debug_read_eeprom", "debug_dump_eeprom"}

BracketOps == XdataEepromOps \cup DebugReadOps

(***************************************************************************)
(* C1: every per-address transaction of debug_read_xdata,                  *)
(* debug_write_xdata, debug_read_eeprom and debug_write_eeprom happens     *)
(* while the MCU is halted, unless the caller passed halt=false: then the  *)
(* call issues no halt command and a settle delay follows every            *)
(* per-address command.                                                    *)
(***************************************************************************)
C1_HaltedOrSettled ==
  call.op \in XdataEepromOps =>
    IF call.a.halt
    THEN \A i \in BusIdx : IsPerAddr(call.bus[i]) => call.bus[i].h
    ELSE /\ NoHaltCmd
         /\ \A i \in BusIdx :
              (IsAddrCmd(call.bus[i]) /\ call.bus[i].ok) => Settled(i)

(***************************************************************************)
(* C3: when a halt=true read or write has sent its halt command and a      *)
(* transaction of a per-address transfer then fails, the run command is    *)
(* still issued before the error reaches the caller.                       *)
(***************************************************************************)
C3_BracketClosedOnError ==
  (call.op \in BracketOps /\ call.a.halt) =>
    \A i \in BusIdx, j \in BusIdx :
      ( /\ i < j
        /\ IsHaltCmd(call.bus[i], 1) /\ call.bus[i].ok
        /\ IsPerAddr(call.bus[j]) /\ ~call.bus[j].ok )
      => \E k \in BusIdx : k > j /\ IsHaltCmd(call.bus[k], 0)

(***************************************************************************)
(* C4: after debug_halt_mcu(True), a debug read given halt=false sends no  *)
(* halt or run command, takes the settle-delay path on every address, and  *)
(* haltedFlag is still true when it returns.                               *)
(***************************************************************************)
C4_ManualHaltRead ==
  (call.op \in DebugReadOps /\ ~call.a.halt /\ call.pre.halted) =>
    /\ NoHaltCmd
    /\ \A i \in BusIdx :
         (IsAddrCmd(call.bus[i]) /\ call.bus[i].ok) => Settled(i)
    /\ halted

(***************************************************************************)
(* C6: a debug EEPROM read or write whose start or end address lies        *)
(* outside 0x0000..0xffff is rejected with a RangeError before any halt    *)
(* or EEPROM command; no EEPROM command is sent for such an address.       *)
(***************************************************************************)
InWindow(x) == 0 <= x /\ x <= 65535

\* the length of the range a call asks for
ReqLen(c) ==
  CASE c.op \in {"debug_write_xdata", "debug_write_eeprom", "isp_write_xfr"} ->
         Len(c.a.data.v)
    [] c.op \in {"debug_dump_xdata", "debug_dump_eeprom", "isp_dump_xfr"} ->
         DumpLen(c.a.addr, c.a.len, c.a.end)
    [] OTHER -> c.a.len

\* the gate let the call through: its probe of the debug address answered
DebugGatePassed == Len(call.bus) >= 1 /\ call.bus[1].ok

C6_EepromWindow ==
  ( /\ call.op \in {"debug_read_eeprom", "debug_write_eeprom"}
    /\ DebugGatePassed
    /\ call.a.data.it \/ call.op = "debug_read_eeprom"
    /\ ~(InWindow(call.a.addr) /\ InWindow(call.a.addr + ReqLen(call) - 1)) )
  => /\ call.err \in {"RangeErrorStart", "RangeErrorEnd"}
     /\ NoHaltCmd
     /\ \A i \in BusIdx : ~IsEepromCmd(call.bus[i])

(***************************************************************************)
(* C2: debug_enable(False), with or without force, called while            *)
(* haltedFlag is true fails with InvalidState and issues no bus write;     *)
(* the debug-disable command is never written while haltedFlag is true.    *)
(***************************************************************************)
DisableWhileHalted ==
  call.op = "debug_enable" /\ ~call.a.onoff /\ call.pre.halted

NoBusWrite == \A i \in BusIdx : call.bus[i].k \notin {"W", "WR"}

DisableNeverWhileHalted ==
  call.op # "idle" =>
    \A i \in BusIdx : IsDebugOffWrite(call.bus[i]) => ~call.bus[i].f

\* the claim as it stands
C2_AlwaysInvalidState ==
  /\ DisableWhileHalted => (call.err = "InvalidState" /\ NoBusWrite)
  /\ DisableNeverWhileHalted

\* as amended: without force, a probe that reports debug mode off already
\* makes the call a no-op that returns normally
C2_DisableWhileHalted ==
  /\ DisableWhileHalted =>
       /\ NoBusWrite
       /\ call.err = IF call.a.force \/ call.bus[1].ok
                     THEN "InvalidState" ELSE "none"
  /\ DisableNeverWhileHalted

C2_Witness ==
  DisableWhileHalted /\ call.a.force /\ call.err = "InvalidState"

(***************************************************************************)
(* C7: when the gate's query finds the required mode inactive, the         *)
(* protected operation fails with PreconditionFailed before range          *)
(* validation, with no mode write, halt command or per-address             *)
(* transaction, and haltedFlag is unchanged.                               *)
(***************************************************************************)
IspGated   == {"isp_iter_read_xfr", "isp_write_xfr"}
DebugGated == {"debug_halt_mcu"} \cup BracketOps

\* the range a call asks for lies in its space (the EEPROM has no check)
RangeValid(c) ==
  LET max == IF c.op \in IspGated THEN 255 ELSE 65535
  IN  /\ 0 <= c.a.addr /\ c.a.addr <= max
      /\ 0 <= c.a.addr + ReqLen(c) - 1 /\ c.a.addr + ReqLen(c) - 1 <= max

\* the query the gate made came back "off"
QuerySaysOff ==
  /\ call.op \in IspGated \cup DebugGated
  /\ IF call.op \in DebugGated
     THEN ~call.bus[1].ok
     ELSE call.bus[1].ok /\ (call.bus[1].b[2] \div 128) % 2 = 0

\* the mode is off on the chip and the query went through
ModeInactive ==
  \/ call.op \in DebugGated /\ ~call.pre.dbgOn
  \/ call.op \in IspGated /\ ~call.pre.ispOn /\ call.bus[1].ok

C7_GateBeforeAll ==
  /\ call.op # "idle" /\ ModeInactive => QuerySaysOff
  /\ call.op # "idle" /\ QuerySaysOff =>
       /\ call.err = "PreconditionFailed"
       /\ Len(call.bus) = 1
       /\ Pre = call.pre

C7_Witness ==
  /\ call.op = "debug_read_xdata" /\ ~call.pre.dbgOn
  /\ ~RangeValid(call)
  /\ call.err = "PreconditionFailed"

(***************************************************************************)
(* C8: debug_write_xdata(start, values, halt=True) followed by             *)
(* debug_read_xdata(start, len(values), halt=True) returns values.         *)
(***************************************************************************)
NoFault == [at |-> 0, errno |-> "ENXIO"]

C8_RoundTrip ==
  (call.op = "debug_write_xdata" /\ call.a.halt /\ call.err = "none") =>
    LET r == debug_read_xdata(Mach(Pre, NoFault), call.a.addr,
                              Len(call.a.data.v), TRUE)
    IN  r.err = "none" /\ r.ret = call.a.data.v

C8_Witness ==
  /\ call.op = "debug_write_xdata" /\ call.a.halt /\ call.err = "none"
  /\ Len(call.a.data.v) >= 2
  /\ call.a.addr = 255

(***************************************************************************)
(* C9: for each sub-device, the dump called with start and an end address  *)
(* reads the same bytes through the same bus transactions as the read      *)
(* called with start and length = end - start + 1, from the same state.    *)
(***************************************************************************)
C9_DumpEqualsRead ==
  (call.op \in {"isp_dump_xfr", "debug_dump_xdata", "debug_dump_eeprom"}
     /\ call.a.end # 0) =>
    LET n  == call.a.end - call.a.addr + 1
        m0 == Mach(call.pre, call.plan)
        r  == CASE call.op = "isp_dump_xfr" ->
                     isp_read_xfr(m0, call.a.addr, n)
                [] call.op = "debug_dump_xdata" ->
                     debug_read_xdata(m0, call.a.addr, n, call.a.halt)
                [] OTHER ->
                     debug_read_eeprom(m0, call.a.addr, n, call.a.halt)
    IN  r.bus = call.bus /\ r.ret = call.ret /\ r.err = call.err

(***************************************************************************)
(* C10: isp_enable(on, force=False) and debug_enable(on, force=False) are  *)
(* no-ops when the queried mode equals on (no bus write beyond the query,  *)
(* no delay, haltedFlag unchanged); in every other case exactly one mode   *)
(* write is issued.                                                        *)
(***************************************************************************)
Setters == {"isp_enable", "debug_enable"}

\* what the setter's query answered (isp_enabled may also raise)
QueryRaised == call.op = "isp_enable" /\ ~call.bus[1].ok

Queried ==
  IF call.op = "debug_enable" THEN call.bus[1].ok
  ELSE call.bus[1].ok /\ (call.bus[1].b[2] \div 128) % 2 = 1

ModeWrites == Cardinality({i \in BusIdx : IsModeWrite(call.bus[i])})

IsNoOp ==
  /\ Len(call.bus) = 1
  /\ call.err = "none"
  /\ Pre = call.pre

\* the claim as it stands
C10_OneWriteOtherwise ==
  call.op \in Setters =>
    IF ~call.a.force /\ ~QueryRaised /\ Queried = call.a.onoff
    THEN IsNoOp
    ELSE ModeWrites = 1

\* as amended: no mode write when the ISP query itself raised, nor when
\* debug_enable(False) finds _halted set
C10_NoOpOrOneWrite ==
  call.op \in Setters =>
    IF ~call.a.force /\ ~QueryRaised /\ Queried = call.a.onoff
    THEN IsNoOp
    ELSE IF QueryRaised
    THEN ModeWrites = 0 /\ call.err = "OSError" /\ Len(call.bus) = 1
    ELSE IF call.op = "debug_enable" /\ ~call.a.onoff /\ call.pre.halted
    THEN ModeWrites = 0 /\ call.err = "InvalidState" /\ Len(call.bus) = 1
    ELSE ModeWrites = 1

C10_Witness ==
  /\ call.op = "isp_enable" /\ ~call.a.force /\ call.a.onoff
  /\ call.pre.ispOn /\ call.bus[1].ok
  /\ Len(call.bus) = 1

(***************************************************************************)
(* The address validator on its own: limit_addr applied to requests        *)
(* around the ends of both windows, for the read and the write functions.  *)
(***************************************************************************)
\* func.__name__.split("_")[0].upper()
ErrName(fn) == IF fn \in {"isp_iter_read_xfr", "isp_write_xfr"}
               THEN "ISP" ELSE "DEBUG"

\* the decorated functions with their windows
Limited == {[fn |-> "isp_iter_read_xfr", min |-> 0, max |-> 255],
            [fn |-> "isp_write_xfr", min |-> 0, max |-> 255],
            [fn |-> "debug_iter_read_xdata", min |-> 0, max |-> 65535],
            [fn |-> "debug_write_xdata", min |-> 0, max |-> 65535]}

\* the write function of a read function's space and the other way round
Counterpart(fn) ==
  CASE fn = "isp_iter_read_xfr"     -> "isp_write_xfr"
    [] fn = "isp_write_xfr"         -> "isp_iter_read_xfr"
    [] fn = "debug_iter_read_xdata" -> "debug_write_xdata"
    [] OTHER                        -> "debug_iter_read_xdata"

\* the second argument for a request of n addresses: a count or a payload
LenArg(fn, n) == IF HasReadInName(fn) THEN n ELSE Payload(n)

ValStarts == {-1, 0, 1, 254, 255, 256, 65534, 65535, 65536}
ValLens   == 0..(MaxLen + 1)

Validate ==
  /\ call = Idle
  /\ \E d \in Limited, addr \in ValStarts, n \in ValLens :
       call' = [op |-> "limit_addr", fn |-> d.fn, min |-> d.min,
                max |-> d.max, addr |-> addr, n |-> n,
                name |-> ErrName(d.fn),
                err |-> limit_addr(d.min, d.max, d.fn, Mach(Pre, NoFault),
                                   addr, LenArg(d.fn, n)).err]
  /\ UNCHANGED <<halted, ispOn, dbgOn, mcuHalt, xdata, eeprom, gens,
                 debugAutoEnable>>

NextValidate == Validate \/ Return

SpecValidate == Init /\ [][NextValidate]_vars

(***************************************************************************)
(* C5: for the ISP and the XDATA window and every start and length, the    *)
(* validator accepts iff min <= start and start + length - 1 <= max; a     *)
(* read and a write of the same start and length get the same verdict      *)
(* and the same start / end error.                                         *)
(***************************************************************************)
SameForCounterpart ==
  LET fn == Counterpart(call.fn)
  IN  /\ limit_addr(call.min, call.max, fn, Mach(Pre, NoFault), call.addr,
                    LenArg(fn, call.n)).err = call.err
      /\ ErrName(fn) = call.name

\* the claim as it stands
C5_AcceptsIffClaimed ==
  call.op = "limit_addr" =>
    /\ call.err = "none" <=>
         (call.min <= call.addr /\ call.addr + call.n - 1 <= call.max)
    /\ SameForCounterpart

\* as amended: the start must also lie below max and the end above min, so
\* a request of length 0 is accepted only for min < start <= max
C5_AcceptsIffInWindow ==
  call.op = "limit_addr" =>
    LET startOk == call.min <= call.addr /\ call.addr <= call.max
        end     == call.addr + call.n - 1
        endOk   == call.min <= end /\ end <= call.max
    IN  /\ call.err = "none" <=> (startOk /\ endOk)
        /\ call.err = "RangeErrorStart" <=> ~startOk
        /\ call.err = "RangeErrorEnd" <=> (startOk /\ ~endOk)
        /\ call.n >= 1 =>
             (call.err = "none" <=>
                (call.min <= call.addr /\ end <= call.max))
        /\ SameForCounterpart

C5_Witness ==
  /\ call.op = "limit_addr" /\ call.fn = "isp_write_xfr"
  /\ call.addr = 255 /\ call.n = 1 /\ call.err = "none"

(***************************************************************************)
(* C11: the debug-enabled query returns false only when the probe of the   *)
(* debug address fails as 'device not present'; any other transport error  *)
(* of the probe reaches the caller, from the query and from the gated      *)
(* operations and debug_enable that make it.                               *)
(***************************************************************************)
\* the operations that begin with the probe of the debug address
DebugProbers == {"debug_enabled", "debug_enable"} \cup DebugGated

ProbeFailedAs(errnos) ==
  /\ call.op \in DebugProbers
  /\ ~call.bus[1].ok
  /\ call.bus[1].e \in errnos

C11_OnlyNotPresentIsFalse ==
  /\ ProbeFailedAs(Errnos \ {"ENXIO"}) =>
       /\ call.err = "OSError"
       /\ call.errno = call.bus[1].e
       /\ Len(call.bus) = 1
  /\ (call.op = "debug_enabled" /\ call.err = "none" /\ ~call.val) =>
       ProbeFailedAs({"ENXIO"})

(***************************************************************************)
(* C13: with ISP mode enabled, isp_read_xfr and isp_dump_xfr of a valid    *)
(* range start..start+n-1 complete without error; for each address they    *)
(* write the address byte to the ISP address and then read one byte from   *)
(* it, and return the n bytes; nothing goes to the debug address and no    *)
(* delay is inserted.                                                      *)
(***************************************************************************)
IspPublicReads == {"isp_read_xfr", "isp_dump_xfr"}

\* the transactions of the call after the gate's query: per address a write
\* of the address byte, then a read of one byte
IspReadPattern(addr, n) ==
  /\ Len(call.bus) = 1 + 2 * n
  /\ \A k \in 0..(n - 1) :
       /\ call.bus[2 + 2 * k].k = "W"
       /\ call.bus[2 + 2 * k].a = ADDR_ISP
       /\ call.bus[2 + 2 * k].b = <<addr + k>>
       /\ call.bus[3 + 2 * k].k = "R"
       /\ call.bus[3 + 2 * k].a = ADDR_ISP

C13_IspPublicRead ==
  ( /\ call.op \in IspPublicReads
    /\ call.pre.ispOn
    /\ call.plan.at = 0
    /\ ReqLen(call) >= 1
    /\ 0 <= call.a.addr /\ call.a.addr + ReqLen(call) - 1 <= 255 )
  => /\ call.err = "none"
     /\ Len(call.ret) = ReqLen(call)
     /\ IspReadPattern(call.a.addr, ReqLen(call))
     /\ \A i \in BusIdx : call.bus[i].a # ADDR_DBG /\ ~IsSleep(call.bus[i])

(***************************************************************************)
(* C14: isp_write_xfr, debug_write_xdata and debug_write_eeprom, called    *)
(* in the required mode with a payload that is not iterable, fail with     *)
(* InvalidPayload ('data must be iterable'), all three alike, and issue    *)
(* no halt command and no per-address write.                               *)
(***************************************************************************)
WriteOps == {"isp_write_xfr", "debug_write_xdata", "debug_write_eeprom"}

\* the gate of a write found its mode active
WriteGatePassed ==
  /\ call.bus[1].ok
  /\ IF call.op = "isp_write_xfr" THEN call.pre.ispOn ELSE call.pre.dbgOn

C14_InvalidPayload ==
  (call.op \in WriteOps /\ WriteGatePassed /\ ~call.a.data.it) =>
    /\ call.err = "InvalidPayload"
    /\ NoHaltCmd
    /\ \A i \in BusIdx : call.bus[i].k # "W"

(***************************************************************************)
(* C15: when the constructor's probe read of the ISP address fails,        *)
(* construction fails with DeviceUnreachable and no bus transaction        *)
(* follows the failed probe.                                               *)
(***************************************************************************)
C15_DeviceUnreachable ==
  call.op = "__init__" =>
    /\ Len(call.bus) = 1
    /\ call.bus[1].k = "RB" /\ call.bus[1].a = ADDR_ISP
    /\ ~call.bus[1].ok => call.err = "DeviceUnreachable"
    /\ call.bus[1].ok => call.err = "none"

C15_Witness ==
  /\ call.op = "__init__"
  /\ ~call.bus[1].ok /\ call.bus[1].e = "ENXIO"
  /\ call.err = "DeviceUnreachable"

(***************************************************************************)
(* C16: a multi-address operation (ISP / XDATA / EEPROM read of length n,  *)
(* write of n values) that completes issues its per-address commands for   *)
(* exactly the addresses start, start+1, ..., start+n-1 in ascending       *)
(* order, one command transaction per address, and a read returns the      *)
(* bytes in that order.                                                    *)
(***************************************************************************)
MultiOps == {"isp_iter_read_xfr", "isp_read_xfr", "isp_dump_xfr",
             "isp_write_xfr"} \cup BracketOps

\* a per-address command: to the ISP address a write message that carries
\* the register address, to the debug address an XDATA or EEPROM command
IsCmd(e) ==
  \/ IsAddrCmd(e)
  \/ e.k = "W" /\ e.a = ADDR_ISP

\* the address on the wire in a per-address command
CmdAddr(e) ==
  IF e.a = ADDR_ISP THEN e.b[1]
  ELSE IF IsEepromCmd(e) THEN Addr16(e.b[2], e.b[5])
  ELSE Addr16(e.b[2], e.b[3])

IsByteRead(e) == e.k = "R"

Cmds  == SelectSeq(call.bus, IsCmd)
Reads == SelectSeq(call.bus, IsByteRead)

IsReadOp == call.op \in DebugReadOps \cup
                        {"isp_iter_read_xfr", "isp_read_xfr", "isp_dump_xfr"}

C16_AscendingOnePerAddress ==
  (call.op \in MultiOps /\ call.err = "none") =>
    /\ Len(Cmds) = ReqLen(call)
    /\ \A k \in 1..Len(Cmds) : CmdAddr(Cmds[k]) = call.a.addr + k - 1
    /\ IsReadOp =>
         /\ Len(call.ret) = ReqLen(call)
         /\ Len(Reads) = ReqLen(call)
         /\ \A k \in 1..Len(Reads) : call.ret[k] = Reads[k].b[1]

(***************************************************************************)
(* C17: each halt or run command written to the debug address is           *)
(* immediately followed by a 100 ms delay; no bus transaction comes        *)
(* between the command and that delay.                                     *)
(***************************************************************************)
IsSettle100(e) == IsSleep(e) /\ e.b = <<100>>

C17_SettleAfterHalt ==
  call.op # "idle" =>
    \A i \in BusIdx :
      (IsAnyHaltCmd(call.bus[i]) /\ call.bus[i].ok) =>
        (i < Len(call.bus) /\ IsSettle100(call.bus[i + 1]))

C17_Witness ==
  /\ call.op = "debug_read_eeprom" /\ call.a.halt /\ call.a.len >= 1
  /\ call.err = "none"
  /\ \E i \in BusIdx : IsHaltCmd(call.bus[i], 1) /\ IsAddrCmd(call.bus[i + 2])

(***************************************************************************)
(* C18: no transaction is retried: when a transaction of an ISP or debug   *)
(* read / write, of halt control, a mode setter or reset raises a          *)
(* transport error, the operation issues no further bus transaction and    *)
(* the error reaches the caller unchanged.  (The probe of the debug        *)
(* address that is not acknowledged is the query's 'disabled' answer.)     *)
(***************************************************************************)
NoRetryOps == MultiOps \cup {"debug_halt_mcu", "isp_enable", "debug_enable",
                             "isp_reset"}

IsProbe(e) == e.k = "RB" /\ e.a = ADDR_DBG

C18_ErrorEndsCall ==
  call.op \in NoRetryOps =>
    \A i \in BusIdx :
      (~call.bus[i].ok /\ ~(IsProbe(call.bus[i]) /\ call.bus[i].e = "ENXIO"))
      => /\ i = Len(call.bus)
         /\ call.err = "OSError"
         /\ call.errno = call.bus[i].e

(***************************************************************************)
(* C19: the cached haltedFlag equals the value of the last halt / run      *)
(* command successfully written to the debug address (false if none): it   *)
(* changes only with such a command, and a halt=True read or write that    *)
(* completes normally ends with haltedFlag false, also after a manual      *)
(* halt.                                                                   *)
(***************************************************************************)
\* the halt / run commands of the call that the chip acknowledged
HaltWritten == {i \in BusIdx : IsAnyHaltCmd(call.bus[i]) /\ call.bus[i].ok}

\* the flag as the acknowledged commands before entry i leave it
FlagBefore(i) ==
  LET before == {j \in HaltWritten : j < i}
  IN  IF before = {} THEN call.pre.halted
      ELSE call.bus[CHOOSE j \in before : \A x \in before : x <= j].b[2] = 1

C19_FlagIsLastCommand ==
  /\ halted = mcuHalt
  /\ call.op # "idle" =>
       /\ \A i \in BusIdx : call.bus[i].f = FlagBefore(i)
       /\ halted = FlagBefore(Len(call.bus) + 1)
  /\ (call.op \in BracketOps /\ call.a.halt /\ call.err = "none") => ~halted

C19_Witness ==
  /\ call.op = "debug_write_eeprom" /\ call.a.halt
  /\ call.pre.halted
  /\ call.err = "none"
  /\ ~halted

(***************************************************************************)
(* The session's auto-enable policy.  i2rtd.py has no such flag and no     *)
(* setter for it: the flag and SetDebugAutoEnable follow the driver's      *)
(* specification, the gate that would honour the flag is the @debug of     *)
(* the source.                                                             *)
(***************************************************************************)
SetDebugAutoEnable ==
  /\ call = Idle
  /\ \E on \in BOOLEAN :
       /\ debugAutoEnable' = on
       /\ call' = Called("setDebugAutoEnable", [NoArgs EXCEPT !.onoff = on],
                         NoFault, Pre, Mach(Pre, NoFault))
  /\ UNCHANGED <<halted, ispOn, dbgOn, mcuHalt, xdata, eeprom, gens>>

NextAuto ==
  \/ New
  \/ SetDebugAutoEnable
  \/ DebugEnable
  \/ DebugHaltMcu
  \/ DebugReadXdata
  \/ Return

SpecAuto == Init /\ [][NextAuto]_vars

(***************************************************************************)
(* C12: with the auto-enable policy set and debug mode disabled, a         *)
(* debug-protected operation does not fail: it enables debug mode before   *)
(* its first debug transaction and disables it after its last one, after   *)
(* the halt bracket is closed; only with the policy not set does it raise  *)
(* PreconditionFailed.                                                     *)
(***************************************************************************)
\* the call switched debug mode on before, and off after, everything it
\* sent to the debug interface
EnabledAround ==
  \E i \in BusIdx, j \in BusIdx :
    /\ i < j
    /\ IsDebugOnWrite(call.bus[i]) /\ call.bus[i].ok
    /\ IsDebugOffWrite(call.bus[j]) /\ call.bus[j].ok
    /\ \A k \in BusIdx :
         (IsAnyHaltCmd(call.bus[k]) \/ IsPerAddr(call.bus[k])) => (i < k /\ k < j)

C12_AutoEnable ==
  (call.op \in DebugGated /\ ~call.pre.dbgOn /\ call.plan.at = 0) =>
    IF debugAutoEnable
    THEN call.err = "none" /\ EnabledAround
    ELSE call.err = "PreconditionFailed"

(***************************************************************************)
(* The lazy read iterators.  Calling debug_iter_read_xdata or              *)
(* debug_iter_read_eeprom runs the decorators and returns a generator;     *)
(* each next() runs the body from where it stands to the next yield or to  *)
(* its end.  Between two next() the caller may call anything.              *)
(***************************************************************************)
IterKinds  == {"xdata", "eeprom"}
IterStarts == {255}

\* the call of the generator function: gate and range check, no body
debug_iter_call(m, kind, addr, _len) ==
  IF kind = "xdata"
  THEN limit_addr(0, 65535, "debug_iter_read_xdata", debug(m), addr, _len)
  ELSE debug(m)

\* next() on generator G (created with halt=True): the halt command on
\* the first next(), then one pass of the loop up to its yield, or, the
\* range exhausted, the run command and StopIteration
gen_next(m, G) ==
  LET o == IF G.st = "created" THEN Bracket(m, TRUE, TRUE) ELSE m
  IN  IF G.cur < G.stop
      THEN IF G.kind = "xdata" THEN xdata_read_step(o, G.cur, TRUE)
           ELSE eeprom_read_step(o, G.cur, TRUE)
      ELSE Bracket(o, TRUE, FALSE)

\* the generator after that next(): suspended at the yield, or finished
\* (by StopIteration or by the exception that left it)
gen_after(m, G) ==
  IF m.err = "none" /\ G.cur < G.stop
  THEN [G EXCEPT !.st = "running", !.cur = @ + 1]
  ELSE [G EXCEPT !.st = "done"]

\* a step on generator slot g that ended as machine m
GenStep(op, g, a, m, G) ==
  /\ call = Idle
  /\ halted'  = m.halted
  /\ ispOn'   = m.ispOn
  /\ dbgOn'   = m.dbgOn
  /\ mcuHalt' = m.mcuHalt
  /\ xdata'   = m.xdata
  /\ eeprom'  = m.eeprom
  /\ call'    = Called(op, a, NoFault, Pre, m) @@ [g |-> g]
  /\ gens'    = [gens EXCEPT ![g] = G]
  /\ UNCHANGED debugAutoEnable

IterCreate ==
  \E g \in Gens, kind \in IterKinds, addr \in IterStarts, n \in Lens :
    /\ gens[g].st \in {"none", "done"}
    /\ LET m == debug_iter_call(Mach(Pre, NoFault), kind, addr, n)
       IN  GenStep(IF kind = "xdata" THEN "debug_iter_read_xdata"
                   ELSE "debug_iter_read_eeprom",
                   g, [NoArgs EXCEPT !.addr = addr, !.len = n, !.halt = TRUE],
                   m,
                   IF m.err = "none"
                   THEN [st |-> "created", kind |-> kind, cur |-> addr,
                         stop |-> addr + n]
                   ELSE gens[g])

IterNext ==
  \E g \in Gens :
    /\ gens[g].st \in {"created", "running"}
    /\ LET m == gen_next(Mach(Pre, NoFault), gens[g])
       IN  GenStep("next", g,
                   [NoArgs EXCEPT !.addr = gens[g].cur, !.halt = TRUE],
                   m, gen_after(m, gens[g]))

\* what else the caller does between two next(): halt control, the debug
\* mode setter, a halt=True write and a halt=True read
PeerHaltMcu ==
  \E halt \in BOOLEAN :
    Do("debug_halt_mcu", [NoArgs EXCEPT !.halt = halt], NoFault,
       debug_halt_mcu(Mach(Pre, NoFault), halt))

PeerEnable ==
  \E onoff \in BOOLEAN :
    Do("debug_enable", [NoArgs EXCEPT !.onoff = onoff], NoFault,
       debug_enable(Mach(Pre, NoFault), onoff, FALSE))

PeerWrite ==
  \E addr \in IterStarts :
    Do("debug_write_xdata",
       [NoArgs EXCEPT !.addr = addr, !.data = Payload(1), !.halt = TRUE],
       NoFault, debug_write_xdata(Mach(Pre, NoFault), addr, Payload(1), TRUE))

PeerRead ==
  \E addr \in IterStarts :
    Do("debug_read_eeprom",
       [NoArgs EXCEPT !.addr = addr, !.len = 1, !.halt = TRUE],
       NoFault, debug_read_eeprom(Mach(Pre, NoFault), addr, 1, TRUE))

NextIter ==
  \/ New
  \/ IterCreate
  \/ IterNext
  \/ PeerHaltMcu
  \/ PeerEnable
  \/ PeerWrite
  \/ PeerRead
  \/ Return

SpecIter == Init /\ [][NextIter]_vars

(***************************************************************************)
(* C20: for the iterators created with halt=True, under any interleaving   *)
(* of their next() with other driver operations (a second iterator, a      *)
(* halt=True read or write, debug_halt_mcu, debug_enable), every           *)
(* per-address transfer of an iterator happens while the MCU is halted     *)
(* and debug mode is enabled, and once an iterator has sent its halt       *)
(* command, haltedFlag is not false again before it sent its run command.  *)
(***************************************************************************)
C20_IterHaltedThroughout ==
  /\ call.op = "next" =>
       \A i \in BusIdx :
         IsPerAddr(call.bus[i]) => (call.bus[i].h /\ call.bus[i].ok)
  /\ \A g \in Gens : gens[g].st = "running" => halted

====
